---- MODULE Spec2Model ----
(***************************************************************************)
(* A model of the FLAC metadata decoder of garfunkel/go-flac (src/flac.go). *)
(*                                                                         *)
(* The byte source is an os.File.  Its content is revealed block by block  *)
(* by the environment: `file` is the part of the file laid down so far,    *)
(* `final` says that the file has no bytes beyond `file`, and `pos` is the  *)
(* offset of the handle.  Every operation of the decoder is translated     *)
(* from its Go code; bytes are numbers 0..255 and bit fields are computed   *)
(* from them.                                                              *)
(***************************************************************************)
EXTENDS Integers, Sequences, FiniteSets, TLC

VARIABLES
  file,      \* the bytes of the file laid down so far
  final,     \* the file has no byte beyond file
  handle,    \* the os.File of Parse: "none", "open" or "closed"
  pos,       \* the offset of the handle
  pc,        \* where Parse is: the state of the decode loop
  flac,      \* the FLAC of Parse: <<>> before it is made, else <<the FLAC>>
  last,      \* the local variable last of parseStream
  ret,       \* what Parse returned to its caller
  io,        \* history: the Read calls made on the handle
  disk,      \* history: the blocks as the environment laid them down
  consumed   \* history: per block decoded without error, the bits its
             \* decoder took from the bit cursor

vars == <<file, final, handle, pos, pc, flac, last, ret, io, disk, consumed>>

-----------------------------------------------------------------------------
(* Bounds of the model. *)

\* blocks the environment lays down after the first block
MaxBlocks == 2

\* comments of a VorbisComment payload, tracks of a CueSheet payload
MaxFields == 2

-----------------------------------------------------------------------------
(* Program constants. *)

FLACMarker == <<102, 76, 97, 67>>

StreamInfo == 0
Padding == 1
Application == 2
SeekTable == 3
VorbisComment == 4
CueSheet == 5
Picture == 6
Reserved == 7
Invalid == 127

Nil == "nil"

-----------------------------------------------------------------------------
(* Small helpers. *)

Min(a, b) == IF a < b THEN a ELSE b

Pow2(n) == 2 ^ n

\* the bytes of s from offset p (0-based), n of them
Slice(s, p, n) == SubSeq(s, p + 1, p + n)

-----------------------------------------------------------------------------
(* os.File.Read(buf) with len(buf) = k, on file content f at offset p:      *)
(* a zero-length read returns (0, nil); at end of file it returns (0, EOF); *)
(* otherwise it returns as many bytes as there are, up to k, and no error:  *)
(* a short read is not an error and leaves the tail of buf zero.            *)
(* The buffer is [bytes |-> the bytes read, size |-> k]; the bytes beyond   *)
(* Len(bytes) are the zeros that make() put there.                          *)

Read(f, p, k) ==
  LET n == IF k = 0 THEN 0 ELSE Min(k, Len(f) - p)
  IN [n    |-> n,
      err  |-> IF k > 0 /\ n = 0 THEN "EOF" ELSE Nil,
      data |-> [bytes |-> Slice(f, p, n), size |-> k]]

ByteAt(d, i) == IF i <= Len(d.bytes) THEN d.bytes[i] ELSE 0

\* the whole buffer as a byte string (only for small buffers)
Bytes(d) == [i \in 1..d.size |-> ByteAt(d, i)]

-----------------------------------------------------------------------------
(* The bit cursor (bitbuffer.BitBuffer).  A buffer is the data fed and a    *)
(* bit position; a read of n bits fails when fewer than n bits remain.      *)

NewBitBuffer(order) == [data |-> [bytes |-> <<>>, size |-> 0], bit |-> 0, order |-> order]

Feed(buf, d) == [buf EXCEPT !.data = d, !.bit = 0]

Remaining(buf) == buf.data.size * 8 - buf.bit

\* the w bits (w <= 8) from bit q on (0-based, the most significant bit of
\* byte 1 is bit 0), as a number: they lie in two adjacent bytes
Window(d, q, w) ==
  ((ByteAt(d, (q \div 8) + 1) * 256 + ByteAt(d, (q \div 8) + 2)) \div Pow2(16 - (q % 8) - w)) % Pow2(w)

\* A number of up to 64 bits does not fit a machine integer of the model
\* checker: it is kept as its big-endian bytes, right-aligned (base 256).
RECURSIVE Uint(_)
Uint(v) ==
  IF v = <<>> THEN 0
  ELSE 256 * Uint(SubSeq(v, 1, Len(v) - 1)) + v[Len(v)]

\* the next n bits as a big-endian number: the first byte of the number has
\* the n - 8 * (m - 1) high bits, m the number of bytes
PeekUint(buf, n) ==
  [j \in 1..((n + 7) \div 8) |->
     IF j = 1 THEN Window(buf.data, buf.bit, n - 8 * (((n + 7) \div 8) - 1))
     ELSE Window(buf.data, buf.bit + n - 8 * (((n + 7) \div 8) - j + 1), 8)]

\* the next n bits (n a multiple of 8) as a little-endian number: the bytes
\* are taken in reverse order
PeekUintLE(buf, n) ==
  [j \in 1..(n \div 8) |-> Window(buf.data, buf.bit + 8 * ((n \div 8) - j), 8)]

\* the next n bits as ceil(n/8) raw bytes, in order
PeekBytes(buf, n) ==
  [j \in 1..((n + 7) \div 8) |->
     Window(buf.data, buf.bit + 8 * (j - 1), Min(8, n - 8 * (j - 1)))]

Advance(buf, n) == [buf EXCEPT !.bit = @ + n]

Short(buf, n) == n > Remaining(buf)

\* ReadUint64(n), ReadUint32(n), ReadUint8(n): the next n bits as an unsigned
\* number; Uint(v) is the number as an integer, when it is below 2^31.
ReadUint(buf, n) ==
  IF Short(buf, n)
  THEN [err |-> "not enough bits", val |-> <<>>, buf |-> buf]
  ELSE [err |-> Nil,
        val |-> IF buf.order = "LittleEndian" THEN PeekUintLE(buf, n) ELSE PeekUint(buf, n),
        buf |-> Advance(buf, n)]

\* Read(n), ReadString(n): the next n bits as ceil(n/8) raw bytes
ReadBytes(buf, n) ==
  IF Short(buf, n)
  THEN [err |-> "not enough bits", val |-> <<>>, buf |-> buf]
  ELSE [err |-> Nil, val |-> PeekBytes(buf, n), buf |-> Advance(buf, n)]

\* a Read(n) whose result is dropped: "_, err = buffer.Read(n)"
Skip(buf, n) ==
  IF Short(buf, n) THEN [err |-> "not enough bits", val |-> <<>>, buf |-> buf]
  ELSE [err |-> Nil, val |-> <<>>, buf |-> Advance(buf, n)]

\* A 32-bit length or count v (4 bytes): a value of 2^24 or more is larger
\* than any payload (DataLength < 2^24), so a read of that many bytes is
\* short and a loop of that many rounds ends in a short read.
Huge(v) == v[1] # 0
Count(v) == IF Huge(v) THEN 16777216 ELSE Uint(v)

\* ReadString(length * 8), Read(length * 8) for a 32-bit length
ReadCounted(buf, v) ==
  IF Huge(v) THEN [err |-> "not enough bits", val |-> <<>>, buf |-> buf]
  ELSE ReadBytes(buf, Uint(v) * 8)

-----------------------------------------------------------------------------
(* The reads a decoder makes of the cursor.  Each read is followed by       *)
(* "if err != nil { return }": a run of reads stops at the first failure.   *)
(* A run is the error, the cursor and the values read, in order.            *)

UintRead(n)  == [call |-> "ReadUint", bits |-> n]
BytesRead(n) == [call |-> "Read", bits |-> n]
SkipRead(n)  == [call |-> "Skip", bits |-> n]
\* a read of as many bytes as the value read just before says
CountedRead  == [call |-> "ReadCounted", bits |-> 0]

Uints(widths) == [i \in 1..Len(widths) |-> UintRead(widths[i])]

\* the run st after one more read with outcome r
Then(st, r) ==
  [err |-> r.err, buf |-> r.buf,
   vals |-> IF r.err = Nil THEN Append(st.vals, r.val) ELSE st.vals]

Step(st, s) ==
  CASE s.call = "ReadUint"    -> Then(st, ReadUint(st.buf, s.bits))
    [] s.call = "Read"        -> Then(st, ReadBytes(st.buf, s.bits))
    [] s.call = "Skip"        -> Then(st, Skip(st.buf, s.bits))
    [] s.call = "ReadCounted" -> Then(st, ReadCounted(st.buf, st.vals[Len(st.vals)]))

RECURSIVE RunFrom(_, _)
RunFrom(st, steps) ==
  IF steps = <<>> \/ st.err # Nil THEN st
  ELSE RunFrom(Step(st, Head(steps)), Tail(steps))

\* the reads steps, in order, from cursor buf
Run(buf, steps) == RunFrom([err |-> Nil, buf |-> buf, vals |-> <<>>], steps)

\* value k of a run, or the zero value when the run stopped before it
Field(r, k) == IF k <= Len(r.vals) THEN Uint(r.vals[k]) ELSE 0
FieldBits(r, k) == IF k <= Len(r.vals) THEN r.vals[k] ELSE <<>>

-----------------------------------------------------------------------------
(* The block decoders.  Each takes the block header hdr (a                  *)
(* FLACMetadataBlock: Last, Type, DataLength), the file f, the offset p of  *)
(* the handle and the shared bit cursor buf of the FLAC, and yields the     *)
(* block, the error, the new offset, the new cursor, the Read calls made on *)
(* the handle and the number of bits its fields took from the cursor.       *)

\* one Read call on the handle, as logged in io
Call(what, p, k, rd) == [what |-> what, at |-> p, want |-> k, got |-> rd.n, err |-> rd.err]

\* block is <<>> for a nil block, <<b>> for the block b
Result(block, err, p, buf, reads, used) ==
  [block |-> block, err |-> err, pos |-> p, buffer |-> buf, reads |-> reads, used |-> used]

\* field widths that take the sample count for a 32-bit field
StreamInfoWidthsShort == <<16, 16, 24, 24, 20, 3, 5, 32>>

\* the widths of the ReadUint64 calls of the StreamInfo decoder, in order
StreamInfoWidths == <<16, 16, 24, 24, 20, 3, 5, 36>>

ParseStreamInfoBlock(hdr, f, p, buf) ==
  LET rd  == Read(f, p, hdr.DataLength)
      b0  == [kind |-> "StreamInfo", Last |-> hdr.Last, Type |-> hdr.Type,
              DataLength |-> hdr.DataLength,
              MinBlockSize |-> 0, MaxBlockSize |-> 0, MinFrameSize |-> 0,
              MaxFrameSize |-> 0, SampleRate |-> 0, Channels |-> 0,
              BitsPerSample |-> 0, NumSamples |-> <<>>, UnencodedMD5 |-> <<>>]
      log == <<Call("payload", p, hdr.DataLength, rd)>>
  IN IF rd.err # Nil THEN Result(<<b0>>, rd.err, p + rd.n, buf, log, 0)
     ELSE LET r == Run(Feed(buf, rd.data), Uints(StreamInfoWidths) \o <<BytesRead(128)>>)
          IN Result(<<[b0 EXCEPT
                        !.MinBlockSize  = Field(r, 1) % 65536,
                        !.MaxBlockSize  = Field(r, 2) % 65536,
                        !.MinFrameSize  = Field(r, 3),
                        !.MaxFrameSize  = Field(r, 4),
                        !.SampleRate    = Field(r, 5),
                        !.Channels      = IF Len(r.vals) >= 6 THEN ((Field(r, 6) % 256) + 1) % 256 ELSE 0,
                        !.BitsPerSample = IF Len(r.vals) >= 7 THEN ((Field(r, 7) % 256) + 1) % 256 ELSE 0,
                        !.NumSamples    = FieldBits(r, 8),
                        !.UnencodedMD5  = FieldBits(r, 9)]>>,
                    r.err, p + rd.n, r.buf, log, r.buf.bit)

ParsePaddingBlock(hdr, f, p, buf) ==
  LET rd  == Read(f, p, hdr.DataLength)
      b0  == [kind |-> "Padding", Last |-> hdr.Last, Type |-> hdr.Type,
              DataLength |-> hdr.DataLength, NumBytes |-> 0]
      log == <<Call("payload", p, hdr.DataLength, rd)>>
  IN IF rd.err # Nil THEN Result(<<b0>>, rd.err, p + rd.n, buf, log, 0)
     ELSE Result(<<[b0 EXCEPT !.NumBytes = hdr.DataLength]>>, Nil, p + rd.n, buf, log, 0)

\* "DataLength * 8 - 32" in unsigned 32 bits: below 32 the subtraction wraps
\* to a size of 2^32 - 32 + DataLength * 8 bits, which is more than any
\* payload holds (DataLength < 2^24) and is written 2^31 - 1 here
AppDataBits(L) == IF L * 8 >= 32 THEN L * 8 - 32 ELSE 2147483647

\* reads of an application block that take the whole payload for the data
ApplicationReadsWhole(L) == <<BytesRead(32), BytesRead(L * 8)>>

\* the reads of an application block: the identifier, then the data
ApplicationReads(L) == <<BytesRead(32), BytesRead(AppDataBits(L))>>

ParseApplicationBlock(hdr, f, p, buf) ==
  LET rd  == Read(f, p, hdr.DataLength)
      b0  == [kind |-> "Application", Last |-> hdr.Last, Type |-> hdr.Type,
              DataLength |-> hdr.DataLength, AppID |-> <<>>, AppData |-> <<>>]
      log == <<Call("payload", p, hdr.DataLength, rd)>>
  IN IF rd.err # Nil THEN Result(<<b0>>, rd.err, p + rd.n, buf, log, 0)
     ELSE LET r == Run(Feed(buf, rd.data), ApplicationReads(hdr.DataLength))
          IN Result(<<[b0 EXCEPT !.AppID = FieldBits(r, 1), !.AppData = FieldBits(r, 2)]>>,
                    r.err, p + rd.n, r.buf, log, r.buf.bit)

\* reads of a seek point that take its last field for 8 bits
SeekPointReadsNarrow == <<UintRead(64), UintRead(64), UintRead(8)>>

\* the reads of one round of the loop over the seek points
SeekPointReads == <<UintRead(64), UintRead(64), UintRead(16)>>

\* the loop "for index := 0; index < len(data) / 18; index++": count rounds
\* to go after the run st, with the points pts appended so far
RECURSIVE ReadSeekPoints(_, _, _)
ReadSeekPoint(st, count, pts) ==
  IF st.err # Nil THEN [run |-> st, points |-> pts]
  ELSE ReadSeekPoints(st, count - 1,
                      Append(pts, [Sample |-> st.vals[1], ByteOffset |-> st.vals[2],
                                   NumSamples |-> Uint(st.vals[3]) % 65536]))

ReadSeekPoints(st, count, pts) ==
  IF count = 0 THEN [run |-> st, points |-> pts]
  ELSE ReadSeekPoint(Run(st.buf, SeekPointReads), count, pts)

ParseSeekTableBlock(hdr, f, p, buf) ==
  LET rd  == Read(f, p, hdr.DataLength)
      b0  == [kind |-> "SeekTable", Last |-> hdr.Last, Type |-> hdr.Type,
              DataLength |-> hdr.DataLength, SeekPoints |-> <<>>]
      log == <<Call("payload", p, hdr.DataLength, rd)>>
  IN IF rd.err # Nil THEN Result(<<b0>>, rd.err, p + rd.n, buf, log, 0)
     ELSE LET r == ReadSeekPoints(Run(Feed(buf, rd.data), <<>>), hdr.DataLength \div 18, <<>>)
          IN Result(<<[b0 EXCEPT !.SeekPoints = r.points]>>,
                    r.run.err, p + rd.n, r.run.buf, log, r.run.buf.bit)

\* the record has the header only: the bytes read go to a local slice
ParseReservedBlock(hdr, f, p, buf) ==
  LET rd  == Read(f, p, hdr.DataLength)
      b0  == [kind |-> "Reserved", Last |-> hdr.Last, Type |-> hdr.Type,
              DataLength |-> hdr.DataLength]
      log == <<Call("payload", p, hdr.DataLength, rd)>>
  IN Result(<<b0>>, rd.err, p + rd.n, buf, log, 0)

\* strings.SplitN(s, "=", 2): <<s>> when s has no "=" (byte 61), else the
\* part before the first "=" and the part after it
EqualsSign == 61

\* a split at the last "=" of the string
SplitLast(str) ==
  IF \A i \in 1..Len(str) : str[i] # EqualsSign THEN <<str>>
  ELSE LET k == CHOOSE i \in 1..Len(str) :
                  str[i] = EqualsSign /\ \A j \in (i + 1)..Len(str) : str[j] # EqualsSign
       IN <<SubSeq(str, 1, k - 1), SubSeq(str, k + 1, Len(str))>>

SplitN2(str) ==
  IF \A i \in 1..Len(str) : str[i] # EqualsSign THEN <<str>>
  ELSE LET k == CHOOSE i \in 1..Len(str) :
                  str[i] = EqualsSign /\ \A j \in 1..(i - 1) : str[j] # EqualsSign
       IN <<SubSeq(str, 1, k - 1), SubSeq(str, k + 1, Len(str))>>

\* block.Comments[key] = append(block.Comments[key], value)
AppendComment(m, key, value) ==
  [k \in DOMAIN m \cup {key} |->
     IF k = key THEN (IF key \in DOMAIN m THEN m[key] ELSE <<>>) \o <<value>> ELSE m[k]]

EmptyMap == [k \in {} |-> <<>>]

\* the loop over the comments: count rounds to go after the run st, with
\* the comments m so far; a round reads the length and the comment
RECURSIVE ReadComments(_, _, _)
\* a round that drops a comment without "=" and goes on
ReadCommentLenient(st, count, m) ==
  IF st.err # Nil THEN [run |-> st, comments |-> m]
  ELSE LET fields == SplitN2(st.vals[2])
       IN IF Len(fields) # 2
          THEN ReadComments(st, count - 1, m)
          ELSE ReadComments(st, count - 1, AppendComment(m, fields[1], fields[2]))

ReadComment(st, count, m) ==
  IF st.err # Nil THEN [run |-> st, comments |-> m]
  ELSE LET fields == SplitN2(st.vals[2])
       IN IF Len(fields) # 2
          THEN [run |-> [st EXCEPT !.err = "malformed vorbis comment"], comments |-> m]
          ELSE ReadComments(st, count - 1, AppendComment(m, fields[1], fields[2]))

ReadComments(st, count, m) ==
  IF count = 0 THEN [run |-> st, comments |-> m]
  ELSE ReadComment(Run(st.buf, <<UintRead(32), CountedRead>>), count, m)

\* the block has a little-endian cursor of its own
ParseVorbisCommentBlock(hdr, f, p, buf) ==
  LET rd  == Read(f, p, hdr.DataLength)
      b0  == [kind |-> "VorbisComment", Last |-> hdr.Last, Type |-> hdr.Type,
              DataLength |-> hdr.DataLength, VendorString |-> <<>>, Comments |-> EmptyMap]
      log == <<Call("payload", p, hdr.DataLength, rd)>>
  IN IF rd.err # Nil THEN Result(<<b0>>, rd.err, p + rd.n, buf, log, 0)
     ELSE LET r  == Run(Feed(NewBitBuffer("LittleEndian"), rd.data),
                        <<UintRead(32), CountedRead, UintRead(32)>>)
              b1 == [b0 EXCEPT !.VendorString = FieldBits(r, 2)]
          IN IF r.err # Nil THEN Result(<<b1>>, r.err, p + rd.n, buf, log, r.buf.bit)
             ELSE LET cs == ReadComments(r, Count(r.vals[3]), EmptyMap)
                  IN Result(<<[b1 EXCEPT !.Comments = cs.comments]>>,
                            cs.run.err, p + rd.n, buf, log, cs.run.buf.bit)

\* the reads of the head of a cue sheet, of the head of a track and of an
\* index of a track
CueSheetReads ==
  <<BytesRead(128 * 8), UintRead(64), UintRead(1), SkipRead(7 + 258 * 8), UintRead(8)>>

\* reads of the head of a track that skip the 13 reserved bytes without the
\* 6 reserved bits before them
CueTrackReadsBytesOnly ==
  <<UintRead(64), UintRead(8), BytesRead(12 * 8), UintRead(1), UintRead(1),
    SkipRead(13 * 8), UintRead(8)>>

CueTrackReads ==
  <<UintRead(64), UintRead(8), BytesRead(12 * 8), UintRead(1), UintRead(1),
    SkipRead(6 + 13 * 8), UintRead(8)>>

CueIndexReads == <<UintRead(64), UintRead(8), SkipRead(3 * 8)>>

\* the loop over the indices of one track: count rounds to go after the run
\* st, with the indices ixs appended so far
RECURSIVE ReadCueIndices(_, _, _)
ReadCueIndex(st, count, ixs) ==
  IF st.err # Nil THEN [run |-> st, indices |-> ixs]
  ELSE ReadCueIndices(st, count - 1,
                      Append(ixs, [Offset |-> st.vals[1], IndexNumber |-> Uint(st.vals[2])]))

ReadCueIndices(st, count, ixs) ==
  IF count = 0 THEN [run |-> st, indices |-> ixs]
  ELSE ReadCueIndex(Run(st.buf, CueIndexReads), count, ixs)

\* the loop over the tracks: count rounds to go after the run st, with the
\* tracks trs appended so far; a track is appended after its indices
RECURSIVE ReadCueTracks(_, _, _)
AppendCueTrack(st, ixs, count, trs) ==
  IF ixs.run.err # Nil THEN [run |-> ixs.run, tracks |-> trs]
  ELSE ReadCueTracks(ixs.run, count - 1,
                     Append(trs, [Offset |-> st.vals[1],
                                  Track |-> Uint(st.vals[2]),
                                  ISRC |-> st.vals[3],
                                  IsAudio |-> Uint(st.vals[4]) = 0,
                                  PreEmphasis |-> Uint(st.vals[5]) # 0,
                                  CueSheetTrackIndices |-> ixs.indices]))

\* a loop over the indices that runs once before it tests the count
ReadCueTrackAtLeastOne(st, count, trs) ==
  IF st.err # Nil THEN [run |-> st, tracks |-> trs]
  ELSE AppendCueTrack(st, ReadCueIndices(st, IF Uint(st.vals[7]) = 0 THEN 1 ELSE Uint(st.vals[7]), <<>>),
                      count, trs)

ReadCueTrack(st, count, trs) ==
  IF st.err # Nil THEN [run |-> st, tracks |-> trs]
  ELSE AppendCueTrack(st, ReadCueIndices(st, Uint(st.vals[7]), <<>>), count, trs)

ReadCueTracks(st, count, trs) ==
  IF count = 0 THEN [run |-> st, tracks |-> trs]
  ELSE ReadCueTrack(Run(st.buf, CueTrackReads), count, trs)

ParseCueSheetBlock(hdr, f, p, buf) ==
  LET rd  == Read(f, p, hdr.DataLength)
      b0  == [kind |-> "CueSheet", Last |-> hdr.Last, Type |-> hdr.Type,
              DataLength |-> hdr.DataLength, MediaCatalogNumber |-> <<>>,
              NumLeadInSamples |-> <<>>, IsCD |-> FALSE, CueSheetTracks |-> <<>>]
      log == <<Call("payload", p, hdr.DataLength, rd)>>
  IN IF rd.err # Nil THEN Result(<<b0>>, rd.err, p + rd.n, buf, log, 0)
     ELSE LET r  == Run(Feed(buf, rd.data), CueSheetReads)
              b1 == [b0 EXCEPT !.MediaCatalogNumber = FieldBits(r, 1),
                               !.NumLeadInSamples = FieldBits(r, 2),
                               !.IsCD = Field(r, 3) # 0]
          IN IF r.err # Nil THEN Result(<<b1>>, r.err, p + rd.n, r.buf, log, r.buf.bit)
             ELSE LET ts == ReadCueTracks(r, Field(r, 5), <<>>)
                  IN Result(<<[b1 EXCEPT !.CueSheetTracks = ts.tracks]>>,
                            ts.run.err, p + rd.n, ts.run.buf, log, ts.run.buf.bit)

\* md5.New(), Write(picture), Sum(nil): the digest is a function of the
\* bytes written and of nothing else, and different inputs of the model have
\* different digests
MD5(bytes) == <<"md5", bytes>>

\* the reads of a picture block: the type, the MIME type and the
\* description with their lengths, four numbers, the picture with its length
PictureReadsOneByte ==
  <<UintRead(32), UintRead(32), CountedRead, UintRead(32), CountedRead,
    UintRead(32), UintRead(32), UintRead(32), UintRead(32), UintRead(32), BytesRead(8)>>

PictureReads ==
  <<UintRead(32), UintRead(32), CountedRead, UintRead(32), CountedRead,
    UintRead(32), UintRead(32), UintRead(32), UintRead(32), UintRead(32), CountedRead>>

ParsePictureBlock(hdr, f, p, buf) ==
  LET rd  == Read(f, p, hdr.DataLength)
      b0  == [kind |-> "Picture", Last |-> hdr.Last, Type |-> hdr.Type,
              DataLength |-> hdr.DataLength, PictureType |-> <<>>, MIMEType |-> <<>>,
              Description |-> <<>>, Width |-> <<>>, Height |-> <<>>, ColourDepth |-> <<>>,
              NumColours |-> <<>>, Picture |-> <<>>, PictureMD5 |-> <<>>]
      log == <<Call("payload", p, hdr.DataLength, rd)>>
  IN IF rd.err # Nil THEN Result(<<b0>>, rd.err, p + rd.n, buf, log, 0)
     ELSE LET r == Run(Feed(buf, rd.data), PictureReads)
          IN Result(<<[b0 EXCEPT
                        !.PictureType = FieldBits(r, 1),
                        !.MIMEType = FieldBits(r, 3),
                        !.Description = FieldBits(r, 5),
                        !.Width = FieldBits(r, 6),
                        !.Height = FieldBits(r, 7),
                        !.ColourDepth = FieldBits(r, 8),
                        !.NumColours = FieldBits(r, 9),
                        !.Picture = FieldBits(r, 11),
                        !.PictureMD5 = IF r.err = Nil THEN MD5(r.vals[11]) ELSE <<>>]>>,
                    r.err, p + rd.n, r.buf, log, r.buf.bit)

-----------------------------------------------------------------------------
(* The block header reader and the dispatch on the block type.              *)

\* an unsigned 32-bit number as its two 16-bit halves, and its shifts
BigEndianUint32(b) == [hi |-> b[1] * 256 + b[2], lo |-> b[3] * 256 + b[4]]
Shl8(x) == [hi |-> ((x.hi % 256) * 256) + (x.lo \div 256), lo |-> (x.lo % 256) * 256]
Shr8(x) == [hi |-> x.hi \div 256, lo |-> ((x.hi % 256) * 256) + (x.lo \div 256)]
Uint32(x) == x.hi * 65536 + x.lo

\* shifts of a byte, in 8 bits
ByteShl(b, n) == (b * Pow2(n)) % 256
ByteShr(b, n) == b \div Pow2(n)

\* a header reader that takes the last flag from the two high bits of byte 0
lastBlockTwoBits(h) == ByteShr(h[1], 6) # 0

\* lastBlock, blockType and dataLength of the 4 header bytes
lastBlock(h) == ByteShr(h[1], 7) # 0
blockType(h) == ByteShr(ByteShl(h[1], 1), 1)

\* a length that keeps the low 7 bits of byte 0 as its top bits
dataLengthWithTag(h) == (h[1] % 128) * 16777216 + h[2] * 65536 + h[3] * 256 + h[4]

dataLength(h) == Uint32(Shr8(Shl8(BigEndianUint32(h))))

blockHeader(h) == [Last |-> lastBlock(h), Type |-> blockType(h), DataLength |-> dataLength(h)]

\* a dispatch that reads the payload of a block of type Invalid before it
\* fails
ParseBlockInvalidLate(hdr, f, p, buf) ==
  IF hdr.Type = Invalid
  THEN [ParseReservedBlock(hdr, f, p, buf) EXCEPT !.block = <<>>, !.err = "Invalid"]
  ELSE CASE hdr.Type = StreamInfo    -> ParseStreamInfoBlock(hdr, f, p, buf)
         [] hdr.Type = Padding       -> ParsePaddingBlock(hdr, f, p, buf)
         [] hdr.Type = Application   -> ParseApplicationBlock(hdr, f, p, buf)
         [] hdr.Type = SeekTable     -> ParseSeekTableBlock(hdr, f, p, buf)
         [] hdr.Type = VorbisComment -> ParseVorbisCommentBlock(hdr, f, p, buf)
         [] hdr.Type = CueSheet      -> ParseCueSheetBlock(hdr, f, p, buf)
         [] hdr.Type = Picture       -> ParsePictureBlock(hdr, f, p, buf)
         [] OTHER                    -> ParseReservedBlock(hdr, f, p, buf)

\* the switch on blockType and the call of block.parse(handle)
ParseBlock(hdr, f, p, buf) ==
  CASE hdr.Type = StreamInfo    -> ParseStreamInfoBlock(hdr, f, p, buf)
    [] hdr.Type = Padding       -> ParsePaddingBlock(hdr, f, p, buf)
    [] hdr.Type = Application   -> ParseApplicationBlock(hdr, f, p, buf)
    [] hdr.Type = SeekTable     -> ParseSeekTableBlock(hdr, f, p, buf)
    [] hdr.Type = VorbisComment -> ParseVorbisCommentBlock(hdr, f, p, buf)
    [] hdr.Type = CueSheet      -> ParseCueSheetBlock(hdr, f, p, buf)
    [] hdr.Type = Picture       -> ParsePictureBlock(hdr, f, p, buf)
    [] hdr.Type = Invalid       -> Result(<<>>, "Invalid", p, buf, <<>>, 0)
    [] OTHER                    -> ParseReservedBlock(hdr, f, p, buf)

\* a header reader that takes a failed Read of the header for an empty
\* Padding block and reports no error
parseMetadataBlockNoError(f, p, buf) ==
  LET rd == Read(f, p, 4)
      hc == <<Call("header", p, 4, rd)>>
  IN IF rd.err # Nil
     THEN ParsePaddingBlock([Last |-> FALSE, Type |-> Padding, DataLength |-> 0], f, p, buf)
     ELSE [ParseBlock(blockHeader(Bytes(rd.data)), f, p + rd.n, buf) EXCEPT !.reads = hc \o @]

\* the header read, and the Read calls of the block after the one of the
\* header
parseMetadataBlock(f, p, buf) ==
  LET rd == Read(f, p, 4)
      hc == <<Call("header", p, 4, rd)>>
  IN IF rd.err # Nil THEN Result(<<>>, rd.err, p + rd.n, buf, hc, 0)
     ELSE [ParseBlock(blockHeader(Bytes(rd.data)), f, p + rd.n, buf) EXCEPT !.reads = hc \o @]


-----------------------------------------------------------------------------
(* The environment: what the file holds.  The file is laid down one block   *)
(* at a time, just before the decoder reads it: a shape is the bytes of a   *)
(* block header (all 4, or the first 0..3 when the file ends there), the    *)
(* payload bytes present (all of them, or fewer when the file ends there),  *)
(* bytes of audio data after the block, and whether the file ends after     *)
(* these bytes.                                                            *)

HdrBytes(b0, L) == <<b0, L \div 65536, (L \div 256) % 256, L % 256>>

PayloadBytes(n, seed) == [i \in 1..n |-> (seed * i) % 256]

\* the last flag, as the high bit of byte 0
Lasts == {0, 128}

\* payload lengths of the blocks that end the file; the blocks that the end
\* of file cuts short have these lengths and the long ones of the
\* specification
FullLens == {0, 2, 34, 35}

\* payload lengths of the blocks with more of the file to come
MoreLens == {0, 34}

\* payload patterns: byte i of a payload is seed * i, in 8 bits
Seeds == {0, 41}

\* audio data after the metadata
Trails == {<<>>, <<255, 248>>}

\* payload bytes present of a block of length L that the end of file cuts
Haves(L) == {h \in {0, 1, 34} : h < L}

Shape(h, L, pay, tr, fin) == [hdr |-> h, len |-> L, payload |-> pay, trail |-> tr, fin |-> fin]

\* a whole block, with more of the file to come
WholeBlocks(types) ==
  {Shape(HdrBytes(l + t, L), L, PayloadBytes(L, sd), <<>>, FALSE) :
     l \in Lasts, t \in types, L \in MoreLens, sd \in Seeds}

\* the file ends inside the header
CutHeaders(types, long) ==
  {Shape(SubSeq(HdrBytes(l + t, L), 1, n), L, <<>>, <<>>, TRUE) :
     l \in Lasts, t \in types, L \in FullLens \cup long, n \in 0..3}

\* the file ends inside the payload
CutBlocks(types, long) ==
  UNION {{Shape(HdrBytes(l + t, L), L, PayloadBytes(h, sd), <<>>, TRUE) : h \in Haves(L)} :
         l \in Lasts, t \in types, L \in FullLens \cup long, sd \in Seeds}

\* the file ends after the payload, or holds audio data after it
EndBlocks(types) ==
  {Shape(HdrBytes(l + t, L), L, PayloadBytes(L, sd), tr, TRUE) :
     l \in Lasts, t \in types, L \in FullLens, sd \in Seeds, tr \in Trails}

\* the block types of the files of Spec
MainTypes == {StreamInfo, Padding, Reserved, 126, Invalid}

\* the shapes offered to the next header read: nothing when the file has
\* ended, no whole block with more to come once MaxBlocks blocks follow
\* the first
NoMore == Shape(<<>>, 0, <<>>, <<>>, TRUE)

\* shapes of a file: the blocks with more to come, and the ends of the file
Shapes(types, long) ==
  [more |-> WholeBlocks(types),
   ends |-> CutHeaders(types, long) \cup CutBlocks(types, long) \cup EndBlocks(types)]

MainShapes == Shapes(MainTypes, {513, 65538})

Offers(shapes) ==
  IF final THEN {NoMore}
  ELSE IF Len(disk) >= MaxBlocks THEN shapes.ends
  ELSE shapes.more \cup shapes.ends

Laid(sh) == sh.hdr \o sh.payload \o sh.trail

\* the block as the environment laid it down, logged in disk
OnDisk(sh) == [at |-> Len(file), hdr |-> sh.hdr, len |-> sh.len, payload |-> sh.payload]

\* a file with more to come serves every read of the step in full
Served(sh, reads) == sh.fin \/ \A i \in 1..Len(reads) : reads[i].got = reads[i].want

MarkerInputs ==
  {<<>>, <<102>>, <<102, 76, 97>>, FLACMarker, <<102, 76, 97, 68>>, <<79, 103, 103, 83>>}

-----------------------------------------------------------------------------
(* Parse and parseStream, one action per step of the decode loop.           *)

NewFLAC == [buffer |-> NewBitBuffer("BigEndian"), Marker |-> <<>>,
            StreamInfo |-> <<>>, MetadataBlocks |-> <<>>]

\* the entry of consumed for the result r of a decode
Consumed(r) == [kind |-> r.block[1].kind, DataLength |-> r.block[1].DataLength, bits |-> r.used]

\* a marker test that looks at the first three bytes only
MarkerFoundPrefix(marker) == SubSeq(marker, 1, 3) = SubSeq(FLACMarker, 1, 3)

\* "flac.Marker != FLACMarker" is false
MarkerFound(marker) == marker = FLACMarker

NoReturn == [returned |-> FALSE, flac |-> <<>>, err |-> Nil]

\* "return" of Parse: the named results flac and err go to the caller
Return(fl, e) == [returned |-> TRUE, flac |-> fl, err |-> e]

Init ==
  /\ file = <<>>
  /\ final = FALSE
  /\ handle = "none"
  /\ pos = 0
  /\ pc = "Parse"
  /\ flac = <<>>
  /\ last = FALSE
  /\ ret = NoReturn
  /\ io = <<>>
  /\ disk = <<>>
  /\ consumed = <<>>

\* Parse up to the call of parseStream: os.Open, then the FLAC is made
Parse ==
  /\ pc = "Parse"
  /\ \E opened \in BOOLEAN :
       IF opened
       THEN /\ handle' = "open"
            /\ flac' = <<NewFLAC>>
            /\ pc' = "ExpectMarker"
            /\ ret' = ret
       ELSE /\ handle' = handle
            /\ flac' = flac
            /\ pc' = "Failed"
            /\ ret' = Return(<<>>, "open")
  /\ UNCHANGED <<file, final, pos, last, io, disk, consumed>>

\* parseStream up to the call of parseStreamInfo
ReadMarker ==
  /\ pc = "ExpectMarker"
  /\ \E m \in MarkerInputs, fin \in BOOLEAN :
       /\ Len(m) < 4 => fin
       /\ LET f2 == file \o m
              rd == Read(f2, pos, 4)
              fl == [flac[1] EXCEPT !.Marker = Bytes(rd.data)]
          IN /\ file' = f2
             /\ final' = fin
             /\ pos' = pos + rd.n
             /\ io' = Append(io, Call("marker", pos, 4, rd))
             /\ IF rd.err # Nil
                THEN /\ flac' = flac
                     /\ pc' = "Failed"
                     /\ ret' = Return(flac, rd.err)
                ELSE IF ~MarkerFound(fl.Marker)
                THEN /\ flac' = <<fl>>
                     /\ pc' = "Failed"
                     /\ ret' = Return(<<fl>>, "FLAC marker not found")
                ELSE /\ flac' = <<fl>>
                     /\ pc' = "ExpectStreamInfo"
                     /\ ret' = ret
  /\ UNCHANGED <<handle, last, disk, consumed>>

\* parseStreamInfo, and parseStream up to the first test of the loop
parseStreamInfo(shapes) ==
  /\ pc = "ExpectStreamInfo"
  /\ \E sh \in Offers(shapes) :
     \E r \in {parseMetadataBlock(file \o Laid(sh), pos, flac[1].buffer)} :
       LET fb == [flac[1] EXCEPT !.buffer = r.buffer]
       IN /\ Served(sh, r.reads)
          /\ file' = file \o Laid(sh)
          /\ final' = sh.fin
          /\ disk' = IF final THEN disk ELSE Append(disk, OnDisk(sh))
          /\ pos' = r.pos
          /\ io' = io \o r.reads
          /\ consumed' = IF r.err # Nil THEN consumed ELSE Append(consumed, Consumed(r))
          /\ IF r.err # Nil
             THEN /\ flac' = <<fb>>
                  /\ last' = last
                  /\ pc' = "Failed"
                  /\ ret' = Return(<<fb>>, r.err)
             ELSE IF r.block[1].kind # "StreamInfo"
             \* streamInfo.(*FLACMetadataBlockStreamInfo) panics
             THEN /\ flac' = <<fb>>
                  /\ last' = last
                  /\ pc' = "Panicked"
                  /\ ret' = ret
             ELSE LET fs == [fb EXCEPT !.StreamInfo = r.block]
                  IN /\ flac' = <<fs>>
                     /\ last' = r.block[1].Last
                     /\ IF r.block[1].Last
                        THEN pc' = "Done" /\ ret' = Return(<<fs>>, Nil)
                        ELSE pc' = "ExpectMetadataBlock" /\ ret' = ret
  /\ UNCHANGED handle

\* a loop that appends the block it got before it tests the error
parseNextBlockAppendFirst(shapes) ==
  /\ pc = "ExpectMetadataBlock"
  /\ ~last
  /\ \E sh \in Offers(shapes) :
     \E r \in {parseMetadataBlock(file \o Laid(sh), pos, flac[1].buffer)} :
       LET fb == [flac[1] EXCEPT !.buffer = r.buffer]
       IN /\ Served(sh, r.reads)
          /\ file' = file \o Laid(sh)
          /\ final' = sh.fin
          /\ disk' = IF final THEN disk ELSE Append(disk, OnDisk(sh))
          /\ pos' = r.pos
          /\ io' = io \o r.reads
          /\ consumed' = IF r.err # Nil THEN consumed ELSE Append(consumed, Consumed(r))
          /\ IF r.err # Nil
             THEN /\ flac' = <<[fb EXCEPT !.MetadataBlocks = @ \o r.block]>>
                  /\ last' = last
                  /\ pc' = "Failed"
                  /\ ret' = Return(<<[fb EXCEPT !.MetadataBlocks = @ \o r.block]>>, r.err)
             ELSE LET fa == [fb EXCEPT !.MetadataBlocks = Append(@, r.block[1])]
                  IN /\ flac' = <<fa>>
                     /\ last' = r.block[1].Last
                     /\ IF r.block[1].Last
                        THEN pc' = "Done" /\ ret' = Return(<<fa>>, Nil)
                        ELSE pc' = "ExpectMetadataBlock" /\ ret' = ret
  /\ UNCHANGED handle

\* one round of the loop "for !last", and the test that follows it
parseNextBlock(shapes) ==
  /\ pc = "ExpectMetadataBlock"
  /\ ~last
  /\ \E sh \in Offers(shapes) :
     \E r \in {parseMetadataBlock(file \o Laid(sh), pos, flac[1].buffer)} :
       LET fb == [flac[1] EXCEPT !.buffer = r.buffer]
       IN /\ Served(sh, r.reads)
          /\ file' = file \o Laid(sh)
          /\ final' = sh.fin
          /\ disk' = IF final THEN disk ELSE Append(disk, OnDisk(sh))
          /\ pos' = r.pos
          /\ io' = io \o r.reads
          /\ consumed' = IF r.err # Nil THEN consumed ELSE Append(consumed, Consumed(r))
          /\ IF r.err # Nil
             THEN /\ flac' = <<fb>>
                  /\ last' = last
                  /\ pc' = "Failed"
                  /\ ret' = Return(<<fb>>, r.err)
             ELSE LET fa == [fb EXCEPT !.MetadataBlocks = Append(@, r.block[1])]
                  IN /\ flac' = <<fa>>
                     /\ last' = r.block[1].Last
                     /\ IF r.block[1].Last
                        THEN pc' = "Done" /\ ret' = Return(<<fa>>, Nil)
                        ELSE pc' = "ExpectMetadataBlock" /\ ret' = ret
  /\ UNCHANGED handle

Next ==
  \/ Parse
  \/ ReadMarker
  \/ parseStreamInfo(MainShapes)
  \/ parseNextBlock(MainShapes)

Spec == Init /\ [][Next]_vars

\* the decode of files whose blocks are of the types that use a bit cursor
CursorTypes == {StreamInfo, Application, SeekTable, VorbisComment, CueSheet, Picture}

CursorShapes == Shapes(CursorTypes, {513})

CursorNext ==
  \/ Parse
  \/ ReadMarker
  \/ parseStreamInfo(CursorShapes)
  \/ parseNextBlock(CursorShapes)

CursorSpec == Init /\ [][CursorNext]_vars

\* the decode of files of Padding blocks after a first block that is a
\* StreamInfo or a Padding block, by a decoder that runs on: it is one
\* sequential program, and a call that can be made is made
LoopFirstShapes == Shapes({StreamInfo, Padding}, {})

LoopShapes == Shapes({Padding}, {})

LoopNext ==
  \/ Parse
  \/ ReadMarker
  \/ parseStreamInfo(LoopFirstShapes)
  \/ parseNextBlock(LoopShapes)

LoopSpec == Init /\ [][LoopNext]_vars /\ WF_vars(LoopNext)

-----------------------------------------------------------------------------
(* Files whose blocks have payloads with a content: the payload of a block  *)
(* is laid out from the fields it holds, byte by byte as flac.go reads them *)
(* back, and MaxFields bounds the repeated parts (the comments of a        *)
(* VorbisComment, the tracks of a CueSheet).                                *)

\* a 32-bit number below 65536, little-endian and big-endian
LittleEndian32(n) == <<n % 256, n \div 256, 0, 0>>
BigEndian32(n) == <<0, 0, n \div 256, n % 256>>

\* the sequences in seqs, one after the other
RECURSIVE Concat(_)
Concat(seqs) == IF seqs = <<>> THEN <<>> ELSE Head(seqs) \o Concat(Tail(seqs))

\* the sequences over set S of length 0..n
RECURSIVE SeqsUpTo(_, _)
SeqsUpTo(S, n) ==
  IF n = 0 THEN {<<>>}
  ELSE SeqsUpTo(S, n - 1) \cup {Append(s, x) : s \in {t \in SeqsUpTo(S, n - 1) : Len(t) = n - 1}, x \in S}

\* a StreamInfo payload of 34 bytes: the 3-bit field is bits 100..102 and
\* the 5-bit field bits 103..107, in bytes 13 and 14 (from 1)
StreamInfoPayload(raw3, raw5) ==
  [i \in 1..34 |->
     IF i = 13 THEN 16 + raw3 * 2 + (raw5 \div 16)
     ELSE IF i = 14 THEN (raw5 % 16) * 16 + 14
     ELSE (41 * i) % 256]

\* the comments of a VorbisComment payload: "A=1", "A=2", "B=1=2", and
\* "AB", which has no "="
VorbisEntries ==
  {[key |-> <<65>>, sep |-> <<EqualsSign>>, value |-> <<49>>],
   [key |-> <<65>>, sep |-> <<EqualsSign>>, value |-> <<50>>],
   [key |-> <<66>>, sep |-> <<EqualsSign>>, value |-> <<49, EqualsSign, 50>>],
   [key |-> <<65, 66>>, sep |-> <<>>, value |-> <<>>]}

VorbisInputs == [vendor : {<<>>, <<118>>}, entries : SeqsUpTo(VorbisEntries, MaxFields)]

\* the comment as it is in the payload
Raw(e) == e.key \o e.sep \o e.value

VorbisPayload(c) ==
  LittleEndian32(Len(c.vendor)) \o c.vendor \o LittleEndian32(Len(c.entries))
    \o Concat([j \in 1..Len(c.entries) |->
                 LittleEndian32(Len(Raw(c.entries[j]))) \o Raw(c.entries[j])])

\* a Picture payload: the rest are payload bytes after the picture
PictureInputs ==
  [mime : {<<>>, <<109>>}, desc : {<<>>, <<100>>}, width : {1, 2},
   pic : {<<>>, <<7>>, <<7, 9>>}, rest : {<<>>, <<5>>}]

PicturePayload(c) ==
  BigEndian32(3) \o BigEndian32(Len(c.mime)) \o c.mime
    \o BigEndian32(Len(c.desc)) \o c.desc
    \o BigEndian32(c.width) \o BigEndian32(1) \o BigEndian32(24) \o BigEndian32(0)
    \o BigEndian32(Len(c.pic)) \o c.pic \o c.rest

\* a CueSheet payload: indices[j] is the number of indices of track j; the
\* rest are payload bytes after the last track
CueSheetInputs == [indices : SeqsUpTo(0..2, MaxFields), rest : {<<>>, <<5>>}]

PayloadBytes3(n) == [i \in 1..n |-> (3 * i) % 256]

CueTrackBytes(n) == PayloadBytes3(35) \o <<n>> \o Concat([k \in 1..n |-> PayloadBytes3(12)])

CueSheetPayload(c) ==
  PayloadBytes3(395) \o <<Len(c.indices)>>
    \o Concat([j \in 1..Len(c.indices) |-> CueTrackBytes(c.indices[j])]) \o c.rest

\* the inputs, each with the payload that holds it
VorbisCases ==
  {[vendor |-> c.vendor, entries |-> c.entries, payload |-> VorbisPayload(c)] :
     c \in VorbisInputs}

PictureCases ==
  {[mime |-> c.mime, desc |-> c.desc, width |-> c.width, pic |-> c.pic, rest |-> c.rest,
    payload |-> PicturePayload(c)] : c \in PictureInputs}

CueSheetCases ==
  {[indices |-> c.indices, rest |-> c.rest, payload |-> CueSheetPayload(c)] :
     c \in CueSheetInputs}

\* payload lengths of the Application and of the SeekTable blocks
ApplicationLens == {0, 1, 3, 4, 5, 8}
SeekTableLens == {0, 17, 18, 35, 36, 54}

\* a block with a content: its type and its payload
Content(t, pay) == [type |-> t, payload |-> pay]

ContentBlocks ==
  {Content(VorbisComment, VorbisPayload(c)) : c \in VorbisInputs}
    \cup {Content(Picture, PicturePayload(c)) : c \in PictureInputs}
    \cup {Content(CueSheet, CueSheetPayload(c)) : c \in CueSheetInputs}
    \cup {Content(Application, PayloadBytes3(L)) : L \in ApplicationLens}
    \cup {Content(SeekTable, PayloadBytes3(L)) : L \in SeekTableLens}

\* the blocks that have more of the file after them: one of each type, and
\* a VorbisComment with a comment that has no "="
MoreContentBlocks ==
  {Content(VorbisComment,
           VorbisPayload([vendor |-> <<118>>,
                          entries |-> <<CHOOSE e \in VorbisEntries : e.value = <<49>>,
                                        CHOOSE e \in VorbisEntries : e.value = <<50>>>>])),
   Content(VorbisComment,
           VorbisPayload([vendor |-> <<>>,
                          entries |-> <<CHOOSE e \in VorbisEntries : e.sep = <<>>>>])),
   Content(Picture, PicturePayload([mime |-> <<109>>, desc |-> <<>>, width |-> 1,
                                    pic |-> <<7, 9>>, rest |-> <<5>>])),
   Content(CueSheet, CueSheetPayload([indices |-> <<1, 0>>, rest |-> <<>>])),
   Content(Application, PayloadBytes3(5)),
   Content(SeekTable, PayloadBytes3(35))}

WholeContent(blocks, lasts, fin) ==
  {Shape(HdrBytes(l + b.type, Len(b.payload)), Len(b.payload), b.payload, <<>>, fin) :
     l \in lasts, b \in blocks}

ContentShapes ==
  [more |-> WholeContent(MoreContentBlocks, {0}, FALSE),
   ends |-> WholeContent(ContentBlocks, Lasts, TRUE)]

\* the first block: a StreamInfo with every value of its 3-bit and 5-bit
\* fields
StreamInfoContent == {Content(StreamInfo, StreamInfoPayload(a, b)) : a \in 0..7, b \in 0..31}

FirstShapes ==
  [more |-> WholeContent({Content(StreamInfo, StreamInfoPayload(1, 15))}, {0}, FALSE),
   ends |-> WholeContent(StreamInfoContent, Lasts, TRUE)]

ContentNext ==
  \/ Parse
  \/ ReadMarker
  \/ parseStreamInfo(FirstShapes)
  \/ parseNextBlock(ContentShapes)

ContentSpec == Init /\ [][ContentNext]_vars

-----------------------------------------------------------------------------
TypeOK ==
  /\ pc \in {"Parse", "ExpectMarker", "ExpectStreamInfo", "ExpectMetadataBlock",
             "Done", "Failed", "Panicked"}
  /\ pos <= Len(file)
  /\ (~final /\ pc \notin {"Failed", "Panicked", "Done"}) => pos = Len(file)

-----------------------------------------------------------------------------
(* What the files hold, read off the bytes the environment laid down.       *)

OnDiskLast(d) == d.hdr[1] >= 128
OnDiskType(d) == d.hdr[1] % 128
OnDiskEnd(d) == d.at + Len(d.hdr) + Len(d.payload)

FirstBytes(n) == SubSeq(file, 1, Min(n, Len(file)))

LastOf(seq) == seq[Len(seq)]

-----------------------------------------------------------------------------
\* C1: after a successful decode MetadataBlocks is, in on-disk order, the
\* blocks that follow the first block up to and including the first one
\* whose last flag is set; the first block is not in the list; the handle
\* stands at the end of that block's payload, so nothing after it was read;
\* and the list is empty when the first block has the last flag.
C1_BlocksUpToLast ==
  pc = "Done" =>
    LET mb == flac[1].MetadataBlocks
        n  == Len(mb)
    IN /\ Len(disk) = n + 1
       /\ Len(flac[1].StreamInfo) = 1
       /\ \A i \in 1..n :
            /\ mb[i].Type = OnDiskType(disk[i + 1])
            /\ mb[i].Last = OnDiskLast(disk[i + 1])
            /\ Len(disk[i + 1].hdr) = 4 => mb[i].DataLength = disk[i + 1].len
       /\ \A i \in 1..Len(disk) : OnDiskLast(disk[i]) <=> i = Len(disk)
       /\ OnDiskLast(disk[1]) => mb = <<>>
       /\ pos = OnDiskEnd(LastOf(disk))
       /\ LastOf(io).at + LastOf(io).got = pos
       /\ pos <= Len(file)

\* a decode of two blocks after the first, with audio data left unread
C1_Witness ==
  /\ pc = "Done"
  /\ Len(flac[1].MetadataBlocks) = 2
  /\ pos < Len(file)

\* C2: when the first 4 bytes of the source are not "fLaC", decoding fails
\* with the marker error before any block header is read: no StreamInfo is
\* set and no metadata block is decoded or appended.
C2_BadMarker ==
  (Len(io) >= 1 /\ io[1].got >= 1 /\ FirstBytes(4) # FLACMarker) =>
    /\ pc = "Failed"
    /\ ret.returned
    /\ ret.err = "FLAC marker not found"
    /\ Len(io) = 1
    /\ io[1].what = "marker"
    /\ flac[1].StreamInfo = <<>>
    /\ flac[1].MetadataBlocks = <<>>
    /\ disk = <<>>
    /\ consumed = <<>>

\* four bytes that are not the marker were read and the decode failed on them
C2_Witness ==
  /\ pc = "Failed"
  /\ ret.err = "FLAC marker not found"
  /\ io[1].got = 4
  /\ FirstBytes(3) = SubSeq(FLACMarker, 1, 3)

\* C3: when the first block after the marker has a type tag in 1..126 and
\* decodes, the decode ends with a MissingStreamInfo error returned to the
\* caller, and never in a crash.
C3_CleanMissingStreamInfo ==
  (/\ Len(disk) >= 1
   /\ Len(disk[1].hdr) = 4
   /\ OnDiskType(disk[1]) \in 1..126
   /\ Len(consumed) >= 1) =>
    /\ pc # "Panicked"
    /\ pc = "Failed"
    /\ ret.returned
    /\ ret.err = "MissingStreamInfo"

\* C4: a block header whose type tag is 127 makes the decode fail with the
\* error Invalid and no payload byte is read: the last Read call is the one
\* of that header and the handle stands at the end of the header, at 4
\* bytes after its start when the file holds the 4 bytes, whatever the
\* length in the header and wherever the block is.
C4_InvalidNoPayload ==
  \A i \in 1..Len(disk) :
    (Len(disk[i].hdr) >= 1 /\ OnDiskType(disk[i]) = Invalid) =>
      /\ i = Len(disk)
      /\ pc = "Failed"
      /\ ret.err = "Invalid"
      /\ LastOf(io).what = "header"
      /\ LastOf(io).at = disk[i].at
      /\ pos = disk[i].at + Len(disk[i].hdr)
      /\ Len(disk[i].hdr) = 4 => pos = disk[i].at + 4

\* the third block of a file has type 127 and a payload, left unread
C4_Witness ==
  /\ pc = "Failed"
  /\ ret.err = "Invalid"
  /\ Len(disk) = 3
  /\ LastOf(disk).len > 0
  /\ Len(LastOf(disk).payload) = LastOf(disk).len
  /\ pos = LastOf(disk).at + 4
  /\ pos < Len(file)

\* the blocks decoded so far, the first block included, each with its
\* bytes on disk
Decoded ==
  IF Len(flac) = 0 THEN <<>> ELSE flac[1].StreamInfo \o flac[1].MetadataBlocks

\* the 4 header bytes as the header reader has them: the bytes missing at
\* the end of the file are zero
PaddedHdr(d) == [j \in 1..4 |-> IF j <= Len(d.hdr) THEN d.hdr[j] ELSE 0]

\* C5: a block with a reserved type tag (7..126) decodes into a record that
\* holds the payload bytes read, so that they can be got back from it.
C5_ReservedKeepsBytes ==
  \A i \in 1..Len(Decoded) :
    (OnDiskType(disk[i]) \in Reserved..126 /\ disk[i].payload # <<>>) =>
      /\ Decoded[i].kind = "Reserved"
      /\ "Data" \in DOMAIN Decoded[i]
      /\ Decoded[i].Data = disk[i].payload

\* C6: a header read with fewer than 4 bytes left in the source (0, 1, 2 or
\* 3) fails, it is the last read of the decode, and no block comes of it.
C6_TruncatedHeader ==
  \A i \in 1..Len(io) :
    (io[i].what = "header" /\ io[i].got < 4) =>
      /\ io[i].err = "EOF"
      /\ i = Len(io)
      /\ pc = "Failed"

\* C7: when a decode step fails Parse returns the error and no container:
\* the caller gets no FLAC holding the marker, the StreamInfo or the blocks
\* decoded before the fault.
C7_NoPartialResult ==
  (ret.returned /\ ret.err # Nil) => ret.flac = <<>>

\* C8: after a successful decode the container has one StreamInfo, from the
\* first block, and no element of MetadataBlocks is a StreamInfo block.
C8_OneStreamInfo ==
  pc = "Done" =>
    /\ Len(flac[1].StreamInfo) = 1
    /\ \A i \in 1..Len(flac[1].MetadataBlocks) :
         flac[1].MetadataBlocks[i].kind # "StreamInfo"

\* C10, as claimed: the length of a decoded header is the low 7 bits of
\* byte 0 followed by bytes 1..3, so that it changes with the type tag.
C10_LengthWithTagBits ==
  \A i \in 1..Len(Decoded) :
    LET h == PaddedHdr(disk[i])
    IN Decoded[i].DataLength = (h[1] % 128) * 16777216 + h[2] * 65536 + h[3] * 256 + h[4]

\* C10, amended: the length of a decoded header is the 24-bit big-endian
\* number in bytes 1..3 and byte 0 has no part in it: two headers that
\* differ in their type tag only have the same length.
C10_LengthFromBytes1To3 ==
  /\ \A i \in 1..Len(Decoded) :
       LET h == PaddedHdr(disk[i])
       IN /\ Decoded[i].DataLength = h[2] * 65536 + h[3] * 256 + h[4]
          /\ Decoded[i].Type = h[1] % 128
  /\ \A i, j \in 1..Len(Decoded) :
       SubSeq(PaddedHdr(disk[i]), 2, 4) = SubSeq(PaddedHdr(disk[j]), 2, 4)
         => Decoded[i].DataLength = Decoded[j].DataLength

\* two decoded blocks differ in their type tag and have the same length,
\* which is not zero
C10_Witness ==
  \E i, j \in 1..Len(Decoded) :
    /\ Decoded[i].Type # Decoded[j].Type
    /\ Decoded[i].Last = Decoded[j].Last
    /\ SubSeq(PaddedHdr(disk[i]), 2, 4) = SubSeq(PaddedHdr(disk[j]), 2, 4)
    /\ Decoded[i].DataLength = Decoded[j].DataLength
    /\ Decoded[i].DataLength > 0

CursorKinds == {"StreamInfo", "Application", "SeekTable", "VorbisComment", "CueSheet", "Picture"}

PayloadByte(d, k) == IF k <= Len(d.payload) THEN d.payload[k] ELSE 0

\* the 3-bit and the 5-bit field of a StreamInfo payload: bits 100..102 and
\* 103..107
Raw3(d) == (PayloadByte(d, 13) % 16) \div 2
Raw5(d) == (PayloadByte(d, 13) % 2) * 16 + (PayloadByte(d, 14) \div 16)

\* C11: for every decoded StreamInfo block Channels is the 3-bit field plus
\* one and lies in 1..8, and BitsPerSample is the 5-bit field plus one and
\* lies in 4..32.
C11_StreamInfoRanges ==
  \A i \in 1..Len(Decoded) :
    Decoded[i].kind = "StreamInfo" =>
      /\ Decoded[i].Channels = Raw3(disk[i]) + 1
      /\ Decoded[i].Channels \in 1..8
      /\ Decoded[i].BitsPerSample = Raw5(disk[i]) + 1
      /\ Decoded[i].BitsPerSample \in 4..32

\* block i on disk has its 4 header bytes and its whole payload
Whole(i) == Len(disk[i].hdr) = 4 /\ Len(disk[i].payload) = disk[i].len

\* C12: a SeekTable block with a payload of L bytes decodes, without error,
\* into floor(L / 18) seek points; point k is made of bytes 18(k-1)+1 ..
\* 18k of the payload (8 bytes, 8 bytes, 2 bytes, big-endian), in payload
\* order, and the L mod 18 bytes after the last point are ignored.
C12_SeekPoints ==
  \A i \in 1..Len(disk) :
    (OnDiskType(disk[i]) = SeekTable /\ Whole(i)) =>
      /\ Len(Decoded) >= i
      /\ Decoded[i].kind = "SeekTable"
      /\ Len(Decoded[i].SeekPoints) = disk[i].len \div 18
      /\ \A k \in 1..(disk[i].len \div 18) :
           /\ Decoded[i].SeekPoints[k].Sample = Slice(disk[i].payload, 18 * (k - 1), 8)
           /\ Decoded[i].SeekPoints[k].ByteOffset = Slice(disk[i].payload, 18 * (k - 1) + 8, 8)
           /\ Decoded[i].SeekPoints[k].NumSamples =
                disk[i].payload[18 * k - 1] * 256 + disk[i].payload[18 * k]

\* a SeekTable of 35 bytes decoded into one point and, after it, one of 54
\* bytes decoded into three
C12_Witness ==
  \E i, j \in 1..Len(Decoded) :
    /\ i < j
    /\ Decoded[i].kind = "SeekTable"
    /\ Decoded[i].DataLength = 35
    /\ Len(Decoded[i].SeekPoints) = 1
    /\ Decoded[j].kind = "SeekTable"
    /\ Decoded[j].DataLength = 54
    /\ Len(Decoded[j].SeekPoints) = 3

\* the values of the comments of entries whose key is k, in input order
ValuesOf(entries, k) ==
  LET Has(e) == e.key = k
  IN [j \in 1..Len(SelectSeq(entries, Has)) |-> SelectSeq(entries, Has)[j].value]

\* the number of values stored in the map m under the keys ks
RECURSIVE Stored(_, _)
Stored(m, ks) ==
  IF ks = {} THEN 0
  ELSE Len(m[CHOOSE k \in ks : TRUE]) + Stored(m, ks \ {CHOOSE k \in ks : TRUE})

\* every comment of the input c has a "="
WellFormed(c) == \A j \in 1..Len(c.entries) : c.entries[j].sep # <<>>

\* C13: a VorbisComment block whose comments all have a "=" decodes; each
\* comment is split at its first "=" only, the values of the comments that
\* share a key are one list under that key, in input order, and the number
\* of stored values is the declared comment count.
C13_CommentsByKey ==
  \A i \in 1..Len(disk) : \A c \in VorbisCases :
    (/\ OnDiskType(disk[i]) = VorbisComment
     /\ disk[i].payload = c.payload
     /\ WellFormed(c)) =>
      /\ Len(Decoded) >= i
      /\ Decoded[i].kind = "VorbisComment"
      /\ Decoded[i].VendorString = c.vendor
      /\ DOMAIN Decoded[i].Comments = {c.entries[j].key : j \in 1..Len(c.entries)}
      /\ \A k \in DOMAIN Decoded[i].Comments :
           Decoded[i].Comments[k] = ValuesOf(c.entries, k)
      /\ Stored(Decoded[i].Comments, DOMAIN Decoded[i].Comments) = Len(c.entries)

\* a block with "A=1" and "A=2" decoded into the list "1", "2" under "A",
\* and a block with "B=1=2" decoded into the value "1=2" under "B"
C13_Witness ==
  \E i, j \in 1..Len(Decoded) :
    /\ Decoded[i].kind = "VorbisComment"
    /\ <<65>> \in DOMAIN Decoded[i].Comments
    /\ Decoded[i].Comments[<<65>>] = << <<49>>, <<50>> >>
    /\ Decoded[j].kind = "VorbisComment"
    /\ <<66>> \in DOMAIN Decoded[j].Comments
    /\ Decoded[j].Comments[<<66>>] = << <<49, EqualsSign, 50>> >>

\* the first comment of the input c that has no "="
FirstMalformed(c) ==
  CHOOSE j \in 1..Len(c.entries) :
    c.entries[j].sep = <<>> /\ \A n \in 1..(j - 1) : c.entries[n].sep # <<>>

\* the bits of the payload of c up to the end of comment n
BitsThrough(c, n) == 8 * Len(VorbisPayload([c EXCEPT !.entries = SubSeq(@, 1, n)]))

\* C14: a VorbisComment block with a comment that has no "=" makes the
\* decode fail with the error of the malformed comment: it is the last
\* block read, no Read call follows the one of its payload, the block is
\* not appended, the decoder stops at the end of that comment and has the
\* comments before it only, and Parse returns the error to its caller.
C14_MalformedComment ==
  \A i \in 1..Len(disk) : \A c \in VorbisCases :
    (/\ OnDiskType(disk[i]) = VorbisComment
     /\ disk[i].payload = c.payload
     /\ ~WellFormed(c)) =>
      /\ pc = "Failed"
      /\ ret.returned
      /\ ret.err = "malformed vorbis comment"
      /\ i = Len(disk)
      /\ Len(Decoded) = i - 1
      /\ LastOf(io).what = "payload"
      /\ LastOf(io).at = disk[i].at + 4
      /\ pos = OnDiskEnd(disk[i])
      /\ ParseVorbisCommentBlock(blockHeader(disk[i].hdr), file, disk[i].at + 4,
                                 flac[1].buffer).used = BitsThrough(c, FirstMalformed(c))
      /\ DOMAIN ParseVorbisCommentBlock(blockHeader(disk[i].hdr), file, disk[i].at + 4,
                                        flac[1].buffer).block[1].Comments
           = {c.entries[j].key : j \in 1..(FirstMalformed(c) - 1)}

\* the decode failed on the third block of a file, a VorbisComment whose
\* first comment has no "=" and whose second has one, after a block was
\* appended
C14_Witness ==
  /\ ret.returned
  /\ ret.err = "malformed vorbis comment"
  /\ Len(disk) = 3
  /\ Len(ret.flac[1].MetadataBlocks) = 1
  /\ \E c \in VorbisCases :
       /\ LastOf(disk).payload = c.payload
       /\ Len(c.entries) = 2
       /\ c.entries[1].sep = <<>>
       /\ c.entries[2].sep # <<>>

\* C15: a Picture block decodes with PictureMD5 the digest of the picture
\* bytes, those that follow the 32-bit picture length, and of nothing else:
\* two decoded blocks with the same picture bytes have the same digest
\* whatever their MIME type, description, width and the payload bytes after
\* the picture.
C15_PictureDigest ==
  /\ \A i \in 1..Len(disk) : \A c \in PictureCases :
       (OnDiskType(disk[i]) = Picture /\ disk[i].payload = c.payload) =>
         /\ Len(Decoded) >= i
         /\ Decoded[i].kind = "Picture"
         /\ Decoded[i].Picture = c.pic
         /\ Decoded[i].PictureMD5 = MD5(c.pic)
  /\ \A i, j \in 1..Len(Decoded) :
       (Decoded[i].kind = "Picture" /\ Decoded[j].kind = "Picture") =>
         (Decoded[i].PictureMD5 = Decoded[j].PictureMD5
            <=> Decoded[i].Picture = Decoded[j].Picture)

\* two decoded Picture blocks with the same two picture bytes and the same
\* digest, which differ in the MIME type and in the bytes after the picture
C15_Witness ==
  \E i, j \in 1..Len(Decoded) :
    /\ Decoded[i].kind = "Picture"
    /\ Decoded[j].kind = "Picture"
    /\ Len(Decoded[i].Picture) = 2
    /\ Decoded[i].PictureMD5 = Decoded[j].PictureMD5
    /\ Decoded[i].MIMEType # Decoded[j].MIMEType
    /\ Decoded[i].DataLength # Decoded[j].DataLength + Len(Decoded[i].MIMEType)

\* C16: by the time Parse has returned, on the success path and on every
\* error path, the file it opened is closed.
C16_HandleReleased == ret.returned => handle # "open"

\* C17 as stated: every track of a decoded CueSheet block has at least one
\* index.
C17_EveryTrackHasAnIndex ==
  \A i \in 1..Len(Decoded) :
    Decoded[i].kind = "CueSheet" =>
      \A k \in 1..Len(Decoded[i].CueSheetTracks) :
        Len(Decoded[i].CueSheetTracks[k].CueSheetTrackIndices) >= 1

\* C17, amended: a CueSheet block decodes into as many tracks as its track
\* count says, and track k has as many indices as the 8-bit index count of
\* its record says, none when that count is zero.
C17_IndicesAsCounted ==
  \A i \in 1..Len(disk) : \A c \in CueSheetCases :
    (OnDiskType(disk[i]) = CueSheet /\ disk[i].payload = c.payload) =>
      /\ Len(Decoded) >= i
      /\ Decoded[i].kind = "CueSheet"
      /\ Len(Decoded[i].CueSheetTracks) = Len(c.indices)
      /\ \A k \in 1..Len(c.indices) :
           Len(Decoded[i].CueSheetTracks[k].CueSheetTrackIndices) = c.indices[k]

\* a CueSheet decoded into two tracks, the first with one index and the
\* second with none, and appended to the blocks
C17_Witness ==
  \E i \in 1..Len(Decoded) :
    /\ Decoded[i].kind = "CueSheet"
    /\ Len(Decoded[i].CueSheetTracks) = 2
    /\ Len(Decoded[i].CueSheetTracks[1].CueSheetTrackIndices) = 1
    /\ Decoded[i].CueSheetTracks[2].CueSheetTrackIndices = <<>>

\* C18: an Application block with data_length L >= 4 decodes with AppID the
\* first 4 payload bytes and AppData the L - 4 bytes after them; with L < 4
\* the decode fails on the read of AppID, with no bit taken from the cursor,
\* so that the read of L * 8 - 32 bits is not made.
C18_ApplicationFields ==
  \A i \in 1..Len(disk) :
    (OnDiskType(disk[i]) = Application /\ Whole(i)) =>
      IF disk[i].len >= 4
      THEN /\ Len(Decoded) >= i
           /\ Decoded[i].kind = "Application"
           /\ Decoded[i].AppID = SubSeq(disk[i].payload, 1, 4)
           /\ Decoded[i].AppData = SubSeq(disk[i].payload, 5, disk[i].len)
           /\ Len(Decoded[i].AppData) = Decoded[i].DataLength - 4
           /\ consumed[i].bits = disk[i].len * 8
      ELSE /\ pc = "Failed"
           /\ ret.err = "not enough bits"
           /\ i = Len(disk)
           /\ Len(Decoded) = i - 1
           /\ ParseApplicationBlock(blockHeader(disk[i].hdr), file, disk[i].at + 4,
                                    flac[1].buffer).used = 0

\* an Application block of 5 bytes decoded into 4 bytes and 1 byte and,
\* after it, the decode failed on an Application block of 3 bytes
C18_Witness ==
  \E i, j \in 1..Len(disk) :
    /\ i < j
    /\ Len(Decoded) = j - 1
    /\ Decoded[i].kind = "Application"
    /\ Decoded[i].DataLength = 5
    /\ Len(Decoded[i].AppID) = 4
    /\ Len(Decoded[i].AppData) = 1
    /\ OnDiskType(disk[j]) = Application
    /\ disk[j].len = 3
    /\ Len(disk[j].payload) = 3
    /\ ret.err = "not enough bits"

\* the number of indices of the tracks trs, all together
RECURSIVE IndexTotal(_)
IndexTotal(trs) ==
  IF trs = <<>> THEN 0
  ELSE Len(trs[1].CueSheetTrackIndices) + IndexTotal(Tail(trs))

\* C19: the CueSheet decoder skips its reserved gaps, so that every record
\* ends on a byte boundary: a decoded cue sheet with T tracks and I indices
\* in all took 396 + 36 T + 12 I bytes from the cursor, the track and index
\* numbers are the ninth byte of their records, and the payload bytes after
\* the last track are left unread.
C19_CueSheetAligned ==
  /\ \A i \in 1..Len(Decoded) :
       Decoded[i].kind = "CueSheet" =>
         /\ consumed[i].bits
              = 8 * (396 + 36 * Len(Decoded[i].CueSheetTracks)
                         + 12 * IndexTotal(Decoded[i].CueSheetTracks))
         /\ \A k \in 1..Len(Decoded[i].CueSheetTracks) :
              /\ Decoded[i].CueSheetTracks[k].Track = PayloadBytes3(35)[9]
              /\ \A n \in 1..Len(Decoded[i].CueSheetTracks[k].CueSheetTrackIndices) :
                   Decoded[i].CueSheetTracks[k].CueSheetTrackIndices[n].IndexNumber
                     = PayloadBytes3(12)[9]
  /\ \A i \in 1..Len(disk) : \A c \in CueSheetCases :
       (OnDiskType(disk[i]) = CueSheet /\ disk[i].payload = c.payload) =>
         /\ Len(Decoded) >= i
         /\ consumed[i].bits = 8 * (disk[i].len - Len(c.rest))

\* a CueSheet of 505 bytes decoded into two tracks with three indices in
\* all: 504 bytes were taken from the cursor
C19_Witness ==
  \E i \in 1..Len(Decoded) :
    /\ Decoded[i].kind = "CueSheet"
    /\ Decoded[i].DataLength = 505
    /\ Len(Decoded[i].CueSheetTracks) = 2
    /\ IndexTotal(Decoded[i].CueSheetTracks) = 3
    /\ consumed[i].bits = 8 * 504

\* the Read calls of block headers, in the order they were made
HeaderReads ==
  LET IsHeader(c) == c.what = "header"
  IN SelectSeq(io, IsHeader)

\* 4 for the marker and 4 + DataLength for each of the first n blocks decoded
RECURSIVE DeclaredEnd(_)
DeclaredEnd(n) ==
  IF n = 0 THEN 4 ELSE DeclaredEnd(n - 1) + 4 + Decoded[n].DataLength

\* C20: whenever a block header is read the handle stands at 4 plus the sum
\* of 4 + DataLength over the blocks decoded before it, the first block
\* included: every decoder moves the handle by its declared DataLength.
C20_HeaderOffsets ==
  \A k \in 1..Len(HeaderReads) :
    /\ k - 1 <= Len(Decoded)
    /\ HeaderReads[k].at = DeclaredEnd(k - 1)

\* block i on disk has its 4 header bytes and the file ends inside its
\* payload: at least one byte of it is there and fewer than DataLength
CutShort(i) ==
  /\ Len(disk[i].hdr) = 4
  /\ Len(disk[i].payload) >= 1
  /\ Len(disk[i].payload) < disk[i].len

\* C21: when the file ends inside the payload of a block the decode fails
\* with an error and no record is made of that block: none is built from
\* the missing bytes read as zeros, and no Padding or Reserved block is
\* accepted with a DataLength larger than the bytes read.
C21_CutPayloadFails ==
  \A i \in 1..Len(disk) :
    CutShort(i) =>
      /\ Len(Decoded) < i
      /\ pc = "Failed"
      /\ ret.returned
      /\ ret.err # Nil

\* a step of the loop over the blocks after the first that ends in an error
FailingStep == pc = "ExpectMetadataBlock" /\ pc' = "Failed"

\* a step of that loop that decodes a block
DecodingStep == pc = "ExpectMetadataBlock" /\ pc' # "Failed" /\ io' # io

\* C22: when the decode fails at a block after the first, MetadataBlocks is
\* the blocks decoded before it, in order: the step that fails appends
\* nothing and leaves the entries as they were, a step that decodes a block
\* appends that one block and leaves the entries before it as they were, and
\* an error is the last thing the decode does: no Read call follows a Read
\* call that failed, and no step follows the failure.
C22_FailureKeepsBlocks ==
  /\ [][/\ FailingStep =>
             /\ flac'[1].MetadataBlocks = flac[1].MetadataBlocks
             /\ flac'[1].StreamInfo = flac[1].StreamInfo
             /\ ret'.err # Nil
             /\ Len(io') \in {Len(io) + 1, Len(io) + 2}
        /\ DecodingStep =>
             /\ Len(flac'[1].MetadataBlocks) = Len(flac[1].MetadataBlocks) + 1
             /\ SubSeq(flac'[1].MetadataBlocks, 1, Len(flac[1].MetadataBlocks))
                  = flac[1].MetadataBlocks
        /\ pc = "Failed" => UNCHANGED vars]_vars
  /\ [](\A k \in 1..(Len(io) - 1) : io[k].err = Nil)

\* the decode failed at the third block of a file on the payload read, after
\* one block was appended: MetadataBlocks holds that block and no other
C22_Witness ==
  /\ pc = "Failed"
  /\ Len(disk) = 3
  /\ Len(flac[1].StreamInfo) = 1
  /\ Len(flac[1].MetadataBlocks) = 1
  /\ flac[1].MetadataBlocks[1].Type = OnDiskType(disk[2])
  /\ LastOf(io).what = "payload"
  /\ LastOf(io).err # Nil

\* Parse is over: it returned, or it panicked
Over == pc \in {"Done", "Failed", "Panicked"}

\* no block laid on disk so far has the last flag
NoLastFlag == \A i \in 1..Len(disk) : disk[i].hdr # <<>> => ~OnDiskLast(disk[i])

\* C23: the loop over the blocks ends on every finite file, also when no
\* block has the last flag: a round of the loop returns an error or moves
\* the handle forward by one byte or more, a round that begins at the end
\* of the file returns EOF, the handle never passes the end of the file,
\* the decode is over in the end, with success only after a block with the
\* last flag, and on a file without one it ends in an error.
C23_LoopTerminates ==
  /\ [][pc = "ExpectMetadataBlock" => (pc' = "Failed" \/ pos' >= pos + 1)]_vars
  /\ [][(pc = "ExpectMetadataBlock" /\ final /\ pos = Len(file))
         => (pc' = "Failed" /\ ret'.err = "EOF" /\ pos' = pos)]_vars
  /\ [](pos <= Len(file))
  /\ [](pc = "Done" => (LastOf(Decoded).Last /\ ~NoLastFlag))
  /\ []((Over /\ NoLastFlag /\ pc # "Panicked") => (pc = "Failed" /\ ret.err # Nil))
  /\ <>Over

\* a file of three blocks without a last flag was read to its end: the
\* third round of reads found no byte left and the decode ended with EOF
C23_Witness ==
  /\ pc = "Failed"
  /\ ret.err = "EOF"
  /\ NoLastFlag
  /\ Len(disk) = 3
  /\ Len(Decoded) = 3
  /\ final
  /\ pos = Len(file)
  /\ LastOf(io).what = "header"
  /\ LastOf(io).got = 0

====
